---- MODULE Spec2Model ----
(***************************************************************************)
(* es-midway-admin: the user endpoints (controller -> service ->           *)
(* repository), the generic BaseService operations, the Result envelope,   *)
(* the Menu table and the captcha cache, as state machines.                *)
(*                                                                         *)
(* Conventions.  A JavaScript object is a record whose keys are the        *)
(* properties that are defined: a property that is undefined is an absent  *)
(* key, and a NULL column of a row is an absent key of the row.  An        *)
(* optional argument is a sequence of length 0 (not passed) or 1.          *)
(* JavaScript null, where a response carries it, is the record Null.       *)
(* The source's message literal at part_000:169 is not ASCII; the model    *)
(* writes it as UserExistsMessage.                                         *)
(***************************************************************************)
EXTENDS Integers, Sequences, FiniteSets, TLC

VARIABLES
    users,       \* table `user`: the rows, in primary-key order
    nextId,      \* the table's auto-increment counter
    plain,       \* history: per user id, the plaintext password last submitted and by which call
    pending,     \* add requests suspended between findOne and save, per request slot
    last,        \* the last request handled and the response the client got
    menus,       \* table `menu`: the rows, in primary-key order
    menuNextId,  \* the menu table's auto-increment counter
    cache,       \* the captcha cache: key -> [value, expires]
    now,         \* the cache's clock
    captchaSeq,  \* how many captchas have been generated
    issued       \* history: per client identifier, the value and time of its latest captcha

vars == <<users, nextId, plain, pending, last, menus, menuNextId, cache, now, captchaSeq, issued>>

userVars == <<users, nextId, plain, pending>>
menuVars == <<menus, menuNextId>>
captchaVars == <<cache, now, captchaSeq, issued>>

----
(* Bounds of the model *)

MaxUsers == 2
MaxInflight == 2
MaxRecords == 12
MaxPage == 3
MaxSize == 3
MaxMenus == 2
MaxMenuId == 3
MaxTime == 4
MaxCaptchas == 3

----
(* JavaScript values *)

Null == [isNull |-> TRUE]
EmptyObj == << >>
None == << >>
Some(v) == <<v>>
Has(obj, k) == k \in DOMAIN obj
Get(obj, k, dflt) == IF Has(obj, k) THEN obj[k] ELSE dflt
Field(k, opt) == IF Len(opt) = 0 THEN EmptyObj ELSE (k :> opt[1])
Truthy(s) == s # ""
Min(a, b) == IF a < b THEN a ELSE b
Max(a, b) == IF a > b THEN a ELSE b

(* md5 of the strings a request of the model can carry (hex digests), and  *)
(* an injective image for every other string.                              *)
md5(s) ==
    CASE s = ""  -> "d41d8cd98f00b204e9800998ecf8427e"
      [] s = "p" -> "83878c91171338902e0fe0fb97a8c47a"
      [] s = "q" -> "7694f4a66316e53c8cdd9d9954bd611d"
      [] OTHER   -> "md5(" \o s \o ")"

----
(* The response envelope: utils/result.ts and controller/base.ts *)

DEFAULT_SUCCESS_CODE == 200
DEFAULT_ERROR_CODE == 900

ResultSuccessNoDefaultData(option) ==
    [code    |-> Get(option, "code", DEFAULT_SUCCESS_CODE),
     message |-> Get(option, "message", "success")]
    @@ (IF Has(option, "data") THEN [data |-> option.data] ELSE EmptyObj)

ResultSuccess(option) ==
    [code    |-> Get(option, "code", DEFAULT_SUCCESS_CODE),
     data    |-> Get(option, "data", Null),
     message |-> Get(option, "message", "success")]

ResultErrorSuccessCode(option) ==
    [code    |-> Get(option, "code", DEFAULT_SUCCESS_CODE),
     data    |-> Get(option, "data", Null),
     message |-> Get(option, "message", "error")]

ResultError(option) ==
    [code    |-> Get(option, "code", DEFAULT_ERROR_CODE),
     data    |-> Get(option, "data", Null),
     message |-> Get(option, "message", "error")]

(* success(data?, option = {}): Result.success({ data, ...option }); a     *)
(* key of option overrides the argument.                                   *)
BaseControllerSuccess(data, option) == ResultSuccess(option @@ Field("data", data))

BaseControllerError(message, option) == ResultError(option @@ Field("message", message))

(* The error kind the services throw, and its translation to the error     *)
(* envelope by the exception handling outside the controller.              *)
UserExistsMessage == "user already exists"
LoginFailedMessage == "wrong username or password"
CustomHttpError(message) == [name |-> "CustomHttpError", message |-> message]
ErrorFilter(err) == ResultError([message |-> err.message])

Returned(value) == [threw |-> FALSE, value |-> value]
Thrown(err) == [threw |-> TRUE, error |-> err]

----
(* The repository (typeorm) as BaseService uses it *)

RECURSIVE FirstIndex(_, _, _)
FirstIndex(rows, name, i) ==
    IF i > Len(rows) THEN 0
    ELSE IF rows[i].username = name THEN i
    ELSE FirstIndex(rows, name, i + 1)

(* entity.findOne({ where: { username } }): the first match, or null *)
FindOneByUsername(rows, name) ==
    LET i == FirstIndex(rows, name, 1) IN IF i = 0 THEN Null ELSE rows[i]

(* entity.save(query) of an entity without id: INSERT with the next id *)
RepositorySave(rows, id, query) == Append(rows, query @@ [id |-> id])

(* entity.update(id, partial): UPDATE ... SET <keys of partial> WHERE id *)
RepositoryUpdate(rows, id, partial) ==
    [i \in 1..Len(rows) |-> IF rows[i].id = id THEN partial @@ rows[i] ELSE rows[i]]

(* entity.delete(ids): one id or a list of ids *)
RepositoryDelete(rows, ids) == SelectSeq(rows, LAMBDA r: r.id \notin ids)

(* entity.findAndCount({ where: {}, take, skip }) *)
FindAndCount(rows, take, skip) ==
    <<SubSeq(rows, skip + 1, Min(skip + take, Len(rows))), Len(rows)>>

BaseServiceAdd(rows, id, query) == RepositorySave(rows, id, query)

BaseServiceUpdate(rows, query) == RepositoryUpdate(rows, query.id, query)

BaseServiceDelete(rows, ids) == RepositoryDelete(rows, ids)

BaseServicePageSkipOff(rows, data) ==
    LET page == Get(data, "page", 1)
        size == Get(data, "size", 10)
        res  == FindAndCount(rows, size, page * size)
    IN  [list |-> res[1], pagination |-> [total |-> res[2], size |-> size, page |-> page]]

BaseServicePage(rows, data) ==
    LET page == Get(data, "page", 1)
        size == Get(data, "size", 10)
        res  == FindAndCount(rows, size, (page - 1) * size)
    IN  [list |-> res[1], pagination |-> [total |-> res[2], size |-> size, page |-> page]]

----
(* UserService *)

(* if (data.password) { data.password = md5(data.password) } *)
HashPassword(data) ==
    IF Has(data, "password") /\ Truthy(data.password)
    THEN [data EXCEPT !.password = md5(@)]
    ELSE data

(* add, up to the await of findOne: does the username exist? *)
UserExistsNever(rows, data) == FALSE

UserExists(rows, data) == FindOneByUsername(rows, data.username) # Null

(* add, after findOne found nothing: hash, then super.add *)
UserServiceAddSave(rows, id, data) == BaseServiceAdd(rows, id, HashPassword(data))

(* add as one uninterrupted call: [threw, error | value, rows] *)
UserServiceAdd(rows, id, data) ==
    IF UserExists(rows, data)
    THEN Thrown(CustomHttpError(UserExistsMessage)) @@ [rows |-> rows]
    ELSE LET saved == UserServiceAddSave(rows, id, data)
         IN  Returned(saved[Len(saved)]) @@ [rows |-> saved]

UserServiceUpdate(rows, data) == BaseServiceUpdate(rows, HashPassword(data))

(* login: by username, comparing the hash of the submitted password *)
UserServiceLogin(rows, data) ==
    LET user == FindOneByUsername(rows, data.username)
    IN  IF user = Null THEN Thrown(CustomHttpError(LoginFailedMessage))
        ELSE IF user.password # md5(data.password)
             THEN Thrown(CustomHttpError(LoginFailedMessage))
             ELSE Returned([token |-> user.id])

(* What the client gets: the controller's success envelope, or the error   *)
(* envelope for a thrown error.                                            *)
Respond(outcome) ==
    IF outcome.threw THEN ErrorFilter(outcome.error)
    ELSE BaseControllerSuccess(Some(outcome.value), EmptyObj)

----
(* Requests *)

Usernames == {"a", "b"}
PlainPasswords == {"", "p"}
LoginPasswords == PlainPasswords \cup {"q", md5("p")}

(* The values a property can take in a request body: absent, or one of S *)
Optional(k, S) == {EmptyObj} \cup {(k :> v) : v \in S}
Required(k, S) == {(k :> v) : v \in S}

(* A request body carries the columns the services read, username and     *)
(* password (realname, nickname and roleId are nullable columns no service *)
(* code touches); add always carries both, the columns being NOT NULL, and *)
(* no id, which the table generates.                                       *)
AddBodies ==
    {u @@ p : u \in Required("username", Usernames),
              p \in Required("password", PlainPasswords)}

UpdateBodies ==
    {i @@ u @@ p : i \in Required("id", 1..(MaxUsers + 1)),
                   u \in Optional("username", Usernames),
                   p \in Optional("password", PlainPasswords)}

LoginBodies == [username : Usernames, password : LoginPasswords]

NoRequest == [op |-> "none", body |-> EmptyObj, resp |-> Null]
Idle == [idle |-> TRUE]

----
(* The user endpoints, one request at a time *)

InitUser ==
    /\ users = << >>
    /\ nextId = 1
    /\ plain = << >>
    /\ pending = [s \in 1..MaxInflight |-> Idle]

InitMenu == menus = << >> /\ menuNextId = 1

InitCaptcha == cache = EmptyObj /\ now = 0 /\ captchaSeq = 0 /\ issued = EmptyObj

Init == InitUser /\ InitMenu /\ InitCaptcha /\ last = NoRequest

(* POST /user/add *)
Add(data) ==
    LET r == UserServiceAdd(users, nextId, data) IN
    /\ r.threw \/ Len(users) < MaxUsers
    /\ users' = r.rows
    /\ nextId' = IF r.threw THEN nextId ELSE nextId + 1
    /\ plain' = IF r.threw THEN plain
                ELSE Append(plain, [pw |-> data.password, via |-> "add"])
    /\ last' = [op |-> "add", body |-> data, resp |-> Respond(r)]
    /\ UNCHANGED <<pending, menuVars, captchaVars>>

(* POST /user/update: await service.update(data); return this.success() *)
Update(data) ==
    /\ users' = UserServiceUpdate(users, data)
    /\ plain' = [i \in 1..Len(plain) |->
                    IF i = data.id /\ Has(data, "password")
                    THEN [pw |-> data.password, via |-> "update"]
                    ELSE plain[i]]
    /\ last' = [op |-> "update", body |-> data,
                resp |-> BaseControllerSuccess(None, EmptyObj)]
    /\ UNCHANGED <<nextId, pending, menuVars, captchaVars>>

(* POST /user/login *)
Login(data) ==
    /\ last' = [op |-> "login", body |-> data,
                resp |-> Respond(UserServiceLogin(users, data))]
    /\ UNCHANGED <<userVars, menuVars, captchaVars>>

Next ==
    \/ \E data \in AddBodies: Add(data)
    \/ \E data \in UpdateBodies: Update(data)
    \/ \E data \in LoginBodies: Login(data)

Spec == Init /\ [][Next]_vars

----
(* POST /user/add with requests interleaved: a request is suspended at the *)
(* await of findOne and at the await of save, and nothing orders the       *)
(* requests between the two.                                               *)

InFlight == {s \in 1..MaxInflight : pending[s] # Idle}

(* add, first half: findOne; throw, or go on to the save *)
AddFind(slot, data) ==
    /\ pending[slot] = Idle
    /\ IF UserExists(users, data)
       THEN /\ last' = [op |-> "add", body |-> data,
                        resp |-> Respond(Thrown(CustomHttpError(UserExistsMessage)))]
            /\ UNCHANGED pending
       ELSE /\ Len(users) + Cardinality(InFlight) < MaxUsers
            /\ pending' = [pending EXCEPT ![slot] = [data |-> data]]
            /\ UNCHANGED last
    /\ UNCHANGED <<users, nextId, plain, menuVars, captchaVars>>

(* add, second half: hash, save, and the controller's success envelope *)
AddSave(slot) ==
    /\ pending[slot] # Idle
    /\ LET data  == pending[slot].data
           saved == UserServiceAddSave(users, nextId, data)
       IN  /\ users' = saved
           /\ nextId' = nextId + 1
           /\ plain' = Append(plain, [pw |-> data.password, via |-> "add"])
           /\ last' = [op |-> "add", body |-> data,
                       resp |-> Respond(Returned(saved[Len(saved)]))]
    /\ pending' = [pending EXCEPT ![slot] = Idle]
    /\ UNCHANGED <<menuVars, captchaVars>>

NextRace ==
    \/ \E slot \in 1..MaxInflight, data \in AddBodies: AddFind(slot, data)
    \/ \E slot \in 1..MaxInflight: AddSave(slot)

SpecRace == Init /\ [][NextRace]_vars

----
(* Claims about the user endpoints *)

Rows(rows) == 1..Len(rows)
UsernameStored(rows, name) == \E i \in Rows(rows): rows[i].username = name
DuplicateUserEnvelope == [code |-> 900, data |-> Null, message |-> UserExistsMessage]
SuccessNullEnvelope == [code |-> 200, data |-> Null, message |-> "success"]

(* C1: an add whose username is already stored fails with the              *)
(* duplicate-user error and leaves the user table as it was: no row is     *)
(* inserted, no row (its password included) is changed.                    *)
C1_DuplicateAddLeavesStore ==
    [][(last'.op = "add" /\ UsernameStored(users, last'.body.username))
        => /\ users' = users
           /\ nextId' = nextId
           /\ last'.resp.message = UserExistsMessage
           /\ last'.resp.code # DEFAULT_SUCCESS_CODE]_vars

C1_Witness ==
    /\ last.op = "add"
    /\ last.resp.message = UserExistsMessage
    /\ UsernameStored(users, last.body.username)
    /\ Len(users) = 1

(* C2: under any interleaving of add requests the user table never holds   *)
(* two rows with the same username.                                        *)
C2_UsernamesUnique ==
    \A i, j \in Rows(users): i # j => users[i].username # users[j].username

(* C3: the stored password of every user is the md5 of the plaintext last  *)
(* submitted for it by add or update, and never that plaintext itself.     *)
C3_StoredPasswordIsHash ==
    \A i \in Rows(users):
        /\ users[i].password = md5(plain[users[i].id].pw)
        /\ users[i].password # plain[users[i].id].pw

C5_LoginAfterAdd ==
    last.op = "login" =>
        \A i \in Rows(users):
            (users[i].username = last.body.username /\ plain[users[i].id].via = "add")
            => IF last.body.password = plain[users[i].id].pw
               THEN last.resp.code = DEFAULT_SUCCESS_CODE
               ELSE last.resp.code = DEFAULT_ERROR_CODE

RowKeys == {"id", "username", "password"}

SameAt(r1, r2, k) == (Has(r1, k) <=> Has(r2, k)) /\ (Has(r1, k) => r1[k] = r2[k])

(* C9: update changes only the row whose id is data.id, and in it only the *)
(* keys data carries, the password by its hash; every other key, every     *)
(* other row and the number of rows stay; with no such row the table       *)
(* stays; and the client gets the success envelope with data null.         *)
C9_UpdateIsPartialById ==
    [][last'.op = "update" =>
        LET d == last'.body IN
        /\ Len(users') = Len(users)
        /\ \A i \in Rows(users):
              IF users[i].id # d.id THEN users'[i] = users[i]
              ELSE \A k \in RowKeys:
                      IF Has(d, k)
                      THEN /\ Has(users'[i], k)
                           /\ users'[i][k] = (IF k = "password" THEN md5(d[k]) ELSE d[k])
                      ELSE SameAt(users'[i], users[i], k)
        /\ last'.resp = SuccessNullEnvelope]_vars

----
(* POST /user/page over a table of 0..MaxRecords users *)

PageStore(n) ==
    [i \in 1..n |-> [id |-> i, username |-> "u" \o ToString(i), password |-> md5("p")]]

PageBodies ==
    {p @@ s : p \in Optional("page", 1..MaxPage), s \in Optional("size", 1..MaxSize)}

InitPage ==
    /\ \E n \in 0..MaxRecords:
          /\ users = PageStore(n)
          /\ nextId = n + 1
          /\ plain = [i \in 1..n |-> [pw |-> "p", via |-> "add"]]
    /\ pending = [s \in 1..MaxInflight |-> Idle]
    /\ InitMenu /\ InitCaptcha /\ last = NoRequest

(* const res = await this.service.page(data); return this.success(res) *)
Page(data) ==
    /\ last' = [op |-> "page", body |-> data,
                resp |-> BaseControllerSuccess(Some(BaseServicePage(users, data)), EmptyObj)]
    /\ UNCHANGED <<userVars, menuVars, captchaVars>>

NextPage == \E data \in PageBodies: Page(data)

SpecPage == InitPage /\ [][NextPage]_vars

(* C6: page p, size s (1 and 10 when omitted) returns at most s rows, the  *)
(* rows at positions (p-1)*s .. p*s-1 of the table, with pagination        *)
(* total = the number of rows of the table, size = s and page = p.         *)
C6_PageSlice ==
    last.op = "page" =>
        LET p    == IF Has(last.body, "page") THEN last.body.page ELSE 1
            s    == IF Has(last.body, "size") THEN last.body.size ELSE 10
            res  == last.resp.data
            from == (p - 1) * s
        IN  /\ Len(res.list) <= s
            /\ Len(res.list) = Max(0, Min(s, Len(users) - from))
            /\ \A i \in 1..Len(res.list): res.list[i] = users[from + i]
            /\ res.pagination = [total |-> Len(users), size |-> s, page |-> p]
            /\ last.resp.code = DEFAULT_SUCCESS_CODE

C6_Witness ==
    /\ last.op = "page"
    /\ ~Has(last.body, "size")
    /\ Has(last.body, "page") /\ last.body.page = 2
    /\ Len(users) = 12
    /\ Len(last.resp.data.list) = 2
    /\ last.resp.data.list[1].id = 11

----
(* The generic operations on the menu table *)

MenuNames == {"m1", "m2"}

MenuAddBodies ==
    {n @@ p : n \in Required("name", MenuNames),
              p \in Optional("parentId", 1..MaxMenuId)}

MenuUpdateBodies ==
    {i @@ n @@ p : i \in Required("id", 1..MaxMenuId),
                   n \in Optional("name", MenuNames),
                   p \in Optional("parentId", 1..MaxMenuId)}

MenuAdd(query) ==
    /\ Len(menus) < MaxMenus
    /\ menuNextId <= MaxMenuId
    /\ menus' = BaseServiceAdd(menus, menuNextId, query)
    /\ menuNextId' = menuNextId + 1
    /\ last' = [op |-> "menu.add", body |-> query, resp |-> Null]
    /\ UNCHANGED <<userVars, captchaVars>>

MenuUpdate(query) ==
    /\ menus' = BaseServiceUpdate(menus, query)
    /\ last' = [op |-> "menu.update", body |-> query, resp |-> Null]
    /\ UNCHANGED <<menuNextId, userVars, captchaVars>>

MenuDelete(ids) ==
    /\ menus' = BaseServiceDelete(menus, ids)
    /\ last' = [op |-> "menu.delete", body |-> [ids |-> ids], resp |-> Null]
    /\ UNCHANGED <<menuNextId, userVars, captchaVars>>

NextMenu ==
    \/ \E query \in MenuAddBodies: MenuAdd(query)
    \/ \E query \in MenuUpdateBodies: MenuUpdate(query)
    \/ \E ids \in (SUBSET (1..MaxMenuId)) \ {{}}: MenuDelete(ids)

SpecMenu == Init /\ [][NextMenu]_vars

(* C8: every menu row with a parentId has the id of a stored menu row as   *)
(* its parentId.                                                           *)
C8_MenuTreeInvariant ==
    \A i \in Rows(menus):
        Has(menus[i], "parentId") => \E j \in Rows(menus): menus[j].id = menus[i].parentId

----
(* POST /user/getCaptchaImage and the captcha cache *)

ClientIds == {"k1", "k2"}
CaptchaBodies == {i : i \in Optional("captchaId", ClientIds)}
CaptchaTTL == 2
NoIdentifier == "undefined"

(* cache.set(key, value, ttl) and cache.get(key) *)
CacheSet(c, key, value, t) == (key :> [value |-> value, expires |-> t + CaptchaTTL]) @@ c
CacheGet(c, key, t) ==
    IF Has(c, key) /\ t < c[key].expires THEN Some(c[key].value) ELSE None

(* getImageCaptcha as called with the argument list `args`: a captcha      *)
(* image and its verification value; the value goes to the cache under the *)
(* identifier the call was given.                                          *)
UserServiceGetImageCaptcha(args, c, t, seq) ==
    LET key   == IF Len(args) >= 1 /\ Has(args[1], "captchaId")
                 THEN args[1].captchaId ELSE NoIdentifier
        value == "v" \o ToString(seq + 1)
    IN  [value |-> [imageBase64 |-> "image of " \o value],
         cache |-> CacheSet(c, key, value, t),
         verification |-> value]

(* async getCaptchaImage(@Body() data) { res = await                       *)
(*   this.service.getImageCaptcha(); return this.success(res) }            *)
GetCaptchaImage(data) ==
    /\ captchaSeq < MaxCaptchas
    /\ LET r == UserServiceGetImageCaptcha(<< >>, cache, now, captchaSeq)
       IN  /\ cache' = r.cache
           /\ last' = [op |-> "getCaptchaImage", body |-> data,
                       resp |-> BaseControllerSuccess(Some(r.value), EmptyObj)]
           /\ issued' = IF Has(data, "captchaId")
                        THEN (data.captchaId :> [value |-> r.verification, at |-> now]) @@ issued
                        ELSE issued
    /\ captchaSeq' = captchaSeq + 1
    /\ UNCHANGED <<now, userVars, menuVars>>

Tick ==
    /\ now < MaxTime
    /\ now' = now + 1
    /\ UNCHANGED <<cache, captchaSeq, issued, last, userVars, menuVars>>

NextCaptcha ==
    \/ \E data \in CaptchaBodies: GetCaptchaImage(data)
    \/ Tick

SpecCaptcha == Init /\ [][NextCaptcha]_vars

(* C10: the verification value of the latest captcha requested with a      *)
(* client identifier is in the cache under that identifier until it        *)
(* expires and absent afterwards, whatever other identifiers requested     *)
(* since, and the request got the image in a success envelope.             *)
C10_CaptchaKeptUnderClientId ==
    /\ \A id \in DOMAIN issued:
          CacheGet(cache, id, now) =
              (IF now < issued[id].at + CaptchaTTL THEN Some(issued[id].value) ELSE None)
    /\ last.op = "getCaptchaImage" =>
          /\ last.resp.code = DEFAULT_SUCCESS_CODE
          /\ Has(last.resp.data, "imageBase64")

----
(* Result and the BaseController helpers, over the calls of the model *)

D1 == [id |-> 1]
D2 == [id |-> 2]
Options ==
    {c @@ d @@ m : c \in Optional("code", {200, 404, 500}),
                   d \in Optional("data", {D2, Null}),
                   m \in Optional("message", {"m2"})}
DataArgs == {None, Some(D1), Some(Null)}
MessageArgs == {None, Some("m1")}

CallResultSuccess(option) ==
    /\ last' = [op |-> "Result.success", body |-> [arg |-> None, option |-> option],
                resp |-> ResultSuccess(option)]
    /\ UNCHANGED <<userVars, menuVars, captchaVars>>

CallResultError(option) ==
    /\ last' = [op |-> "Result.error", body |-> [arg |-> None, option |-> option],
                resp |-> ResultError(option)]
    /\ UNCHANGED <<userVars, menuVars, captchaVars>>

CallControllerSuccess(data, option) ==
    /\ last' = [op |-> "success", body |-> [arg |-> data, option |-> option],
                resp |-> BaseControllerSuccess(data, option)]
    /\ UNCHANGED <<userVars, menuVars, captchaVars>>

CallControllerError(message, option) ==
    /\ last' = [op |-> "error", body |-> [arg |-> message, option |-> option],
                resp |-> BaseControllerError(message, option)]
    /\ UNCHANGED <<userVars, menuVars, captchaVars>>

NextResult ==
    \/ \E option \in Options: CallResultSuccess(option)
    \/ \E option \in Options: CallResultError(option)
    \/ \E data \in DataArgs, option \in Options: CallControllerSuccess(data, option)
    \/ \E message \in MessageArgs, option \in Options: CallControllerError(message, option)

SpecResult == Init /\ [][NextResult]_vars

EnvelopeOps == {"Result.success", "Result.error", "success", "error"}
SuccessOps == {"Result.success", "success"}
ArgKey(op) == IF op = "success" THEN "data" ELSE IF op = "error" THEN "message" ELSE "none"

(* The parts of C7 that do not depend on how an argument and an option     *)
(* combine: three fields; the option's value where it has one; the         *)
(* defaults where neither the option nor the argument gives one.           *)
EnvelopeShapeAndDefaults ==
    LET o == last.body.option
        r == last.resp
        k == ArgKey(last.op)
        given(key) == Has(o, key) \/ (k = key /\ Len(last.body.arg) = 1)
    IN  /\ DOMAIN r = {"code", "data", "message"}
        /\ \A key \in DOMAIN o: r[key] = o[key]
        /\ ~given("code") =>
              r.code = (IF last.op \in SuccessOps THEN 200 ELSE 900)
        /\ ~given("message") =>
              r.message = (IF last.op \in SuccessOps THEN "success" ELSE "error")
        /\ ~given("data") => r.data = Null

(* C7: every envelope has exactly the fields code, data, message; without  *)
(* an overriding option success gives 200/'success', error 900/'error',    *)
(* data null when none is supplied; the value passed as data or message to *)
(* the controller helper is returned when the option does not carry that   *)
(* field, and the option's value is returned when it does.                 *)
C7_Envelope ==
    last.op \in EnvelopeOps =>
        /\ EnvelopeShapeAndDefaults
        /\ LET k == ArgKey(last.op) IN
           (Len(last.body.arg) = 1 /\ ~Has(last.body.option, k))
               => last.resp[k] = last.body.arg[1]

C7_Witness ==
    /\ last.op = "success"
    /\ last.body.arg = Some(D1)
    /\ last.body.option = [code |-> 500]
    /\ last.resp = [code |-> 500, data |-> D1, message |-> "success"]

(* C7 as stated: the value passed as data or message to the controller     *)
(* helper is the one returned, whatever the option.                        *)
C7_ArgumentAlwaysReturned ==
    last.op \in EnvelopeOps =>
        /\ EnvelopeShapeAndDefaults
        /\ Len(last.body.arg) = 1 => last.resp[ArgKey(last.op)] = last.body.arg[1]

====
